---- MODULE Spec2Model ----
(***************************************************************************)
(* Model of scripts/data_processing.py: the NYC DOB job-application        *)
(* pipeline (download -> load -> process -> save -> visualise) driven by   *)
(* main(), over a raw file, an aggregated CSV and a chart that persist     *)
(* between runs.                                                           *)
(*                                                                         *)
(* Data representation.  A text is the sequence of its character codes     *)
(* (ASCII), so that "==" on strings is equality of sequences and the       *)
(* strptime parse works on characters.  A cell is <<>> (null / NaN / NaT)  *)
(* or <<v>>.  A row is a function from column names to cells; a table is   *)
(* a sequence of rows.  Coordinates are exact rationals <<num, den>>       *)
(* (binary floating-point rounding is not modelled); costs are integers.   *)
(***************************************************************************)
EXTENDS Integers, Sequences, FiniteSets

\* ---------------------------------------------------------------- bounds
MaxRows == 2
MaxRuns == 2

\* ----------------------------------------------------------------- cells
Null == << >>
Some(v) == << v >>

\* Texts used by the inputs (character codes).
T_15_03_2023 == <<49,53,47,48,51,47,50,48,50,51>>    \* "15/03/2023"
T_03_15_2023 == <<48,51,47,49,53,47,50,48,50,51>>    \* "03/15/2023"
T_31_12_2024 == <<51,49,47,49,50,47,50,48,50,52>>    \* "31/12/2024"
T_01_01_2022 == <<48,49,47,48,49,47,50,48,50,50>>    \* "01/01/2022"
T_not_a_date == <<110,111,116,45,97,45,100,97,116,101>>  \* "not-a-date"
T_5_1_2023   == <<53,47,49,47,50,48,50,51>>          \* "5/1/2023"
T_29_02_2023 == <<50,57,47,48,50,47,50,48,50,51>>    \* "29/02/2023"
T_29_02_2024 == <<50,57,47,48,50,47,50,48,50,52>>    \* "29/02/2024"
T_X      == <<88>>                                   \* "X"
T_x      == <<120>>                                  \* "x"
T_H65055 == <<72,54,53,48,53,53>>                    \* "H65055"
T_BRONX  == <<66,82,79,78,88>>                       \* "BRONX"
T_A1     == <<65,49>>                                \* "A1"
T_R      == <<82>>                                   \* "R"
T_D      == <<68>>                                   \* "D"
T_Y      == <<89>>                                   \* "Y"

\* ------------------------------------------------------------- columns
columns_of_interest ==
    << "Plumbing", "Mechanical", "Boiler", "Fuel Burning", "Fuel Storage",
       "Standpipe", "Sprinkler", "Fire Alarm", "Equipment",
       "Fire Suppression", "Curb Cut", "Other" >>

GroupKeys ==
    << "Borough", "Job Type", "Job Status", "Approved", "Job #",
       "Building Type", "Pre- Filing Date", "BUILDING_CLASS",
       "Job Description", "Date_Approved", "Fully Paid" >>

AggColumns == << "GIS_LATITUDE", "GIS_LONGITUDE", "Initial Cost" >>

Range(s) == { s[i] : i \in 1..Len(s) }

RawColumns ==
    (Range(GroupKeys) \ {"Date_Approved"}) \cup Range(AggColumns)
        \cup Range(columns_of_interest)

\* ------------------------------------------------------------ rationals
RECURSIVE Gcd(_, _)
Gcd(a, b) == IF b = 0 THEN a ELSE Gcd(b, a % b)

Rat(n, d) == LET g == Gcd(n, d) IN << n \div g, d \div g >>
RatAdd(p, q) == Rat(p[1] * q[2] + q[1] * p[2], p[2] * q[2])
RatDivInt(p, k) == Rat(p[1], p[2] * k)

\* ------------------------------------------------------- date parsing
IsDigit(c) == c >= 48 /\ c <= 57
DigitVal(c) == c - 48

\* %d : 3[0-1] | [1-2]\d | 0[1-9] | [1-9] | " "[1-9]
MatchDay(t) ==
    \/ Len(t) = 2 /\ t[1] = 51 /\ t[2] \in {48, 49}
    \/ Len(t) = 2 /\ t[1] \in {49, 50} /\ IsDigit(t[2])
    \/ Len(t) = 2 /\ t[1] = 48 /\ t[2] >= 49 /\ t[2] <= 57
    \/ Len(t) = 1 /\ t[1] >= 49 /\ t[1] <= 57
    \/ Len(t) = 2 /\ t[1] = 32 /\ t[2] >= 49 /\ t[2] <= 57

\* %m : 1[0-2] | 0[1-9] | [1-9]
MatchMonth(t) ==
    \/ Len(t) = 2 /\ t[1] = 49 /\ t[2] \in {48, 49, 50}
    \/ Len(t) = 2 /\ t[1] = 48 /\ t[2] >= 49 /\ t[2] <= 57
    \/ Len(t) = 1 /\ t[1] >= 49 /\ t[1] <= 57

\* %Y : \d\d\d\d
MatchYear(t) == Len(t) = 4 /\ \A i \in 1..4 : IsDigit(t[i])

RECURSIVE TokVal(_)
TokVal(t) ==
    IF t = << >> THEN 0
    ELSE IF IsDigit(t[Len(t)])
         THEN 10 * TokVal(SubSeq(t, 1, Len(t) - 1)) + DigitVal(t[Len(t)])
         ELSE TokVal(SubSeq(t, 1, Len(t) - 1))

IsLeap(y) == (y % 4 = 0 /\ y % 100 # 0) \/ y % 400 = 0

DaysInMonth(y, m) ==
    IF m = 2 THEN (IF IsLeap(y) THEN 29 ELSE 28)
    ELSE IF m \in {4, 6, 9, 11} THEN 30 ELSE 31

\* The (day-length, month-length) splits under which the text matches
\* "%d/%m/%Y" exactly, with nothing left over.
Splits(s) ==
    { p \in {1, 2} \X {1, 2} :
        /\ Len(s) = p[1] + p[2] + 6
        /\ s[p[1] + 1] = 47
        /\ s[p[1] + p[2] + 2] = 47
        /\ MatchDay(SubSeq(s, 1, p[1]))
        /\ MatchMonth(SubSeq(s, p[1] + 2, p[1] + p[2] + 1))
        /\ MatchYear(SubSeq(s, p[1] + p[2] + 3, Len(s))) }

\* pd.to_datetime(cell, format="%d/%m/%Y", errors="coerce") on one cell:
\* <<y, m, d>> for a text that matches and names a calendar date, NaT
\* (Null) for a null cell, a text that does not match, or a day that the
\* month does not have.
to_datetime(cell) ==
    IF cell = Null \/ Splits(cell[1]) = {} THEN Null
    ELSE LET s == cell[1]
             p == CHOOSE q \in Splits(s) : TRUE
             d == TokVal(SubSeq(s, 1, p[1]))
             m == TokVal(SubSeq(s, p[1] + 2, p[1] + p[2] + 1))
             y == TokVal(SubSeq(s, p[1] + p[2] + 3, Len(s)))
         IN IF y >= 1 /\ d <= DaysInMonth(y, m)
            THEN Some(<< y, m, d >>) ELSE Null


\* --------------------------------------------------------------- inputs
\* A filing that is approved on 15/03/2023 and has every key column filled.
BaseRow ==
    [ c \in RawColumns |->
        CASE c = "Borough"          -> Some(T_BRONX)
          [] c = "Job Type"         -> Some(T_A1)
          [] c = "Job Status"       -> Some(T_R)
          [] c = "Approved"         -> Some(T_15_03_2023)
          [] c = "Job #"            -> Some(1)
          [] c = "Building Type"    -> Some(T_D)
          [] c = "Pre- Filing Date" -> Some(T_01_01_2022)
          [] c = "BUILDING_CLASS"   -> Some(T_A1)
          [] c = "Job Description"  -> Some(T_D)
          [] c = "Fully Paid"       -> Some(T_Y)
          [] c = "GIS_LATITUDE"     -> Some(<< 2, 1 >>)
          [] c = "GIS_LONGITUDE"    -> Some(<< 4, 1 >>)
          [] c = "Initial Cost"     -> Some(10)
          [] c = "Plumbing"         -> Some(T_X)
          [] OTHER                  -> Null ]

\* The rows a served CSV is built from.
RowPool ==
    { BaseRow,
      \* same key as BaseRow, other measures, "x" is not the marker
      [ BaseRow EXCEPT !["GIS_LATITUDE"] = Some(<< 4, 1 >>),
                       !["GIS_LONGITUDE"] = Some(<< 9, 1 >>),
                       !["Initial Cost"] = Some(20),
                       !["Plumbing"] = Some(T_x),
                       !["Boiler"] = Some(T_X) ],
      \* same key as BaseRow, measures missing
      [ BaseRow EXCEPT !["GIS_LATITUDE"] = Null,
                       !["Initial Cost"] = Null,
                       !["Plumbing"] = Null ],
      [ BaseRow EXCEPT !["Approved"] = Some(T_31_12_2024),
                       !["Job #"] = Some(2),
                       !["Other"] = Some(T_X) ],
      [ BaseRow EXCEPT !["Approved"] = Some(T_29_02_2024),
                       !["Borough"] = Some(T_A1) ],
      [ BaseRow EXCEPT !["Approved"] = Some(T_01_01_2022) ],
      [ BaseRow EXCEPT !["Approved"] = Some(T_not_a_date) ],
      [ BaseRow EXCEPT !["Approved"] = Some(T_03_15_2023) ],
      [ BaseRow EXCEPT !["Approved"] = Some(T_29_02_2023) ],
      [ BaseRow EXCEPT !["Approved"] = Null ],
      \* approved in range, a key column missing
      [ BaseRow EXCEPT !["BUILDING_CLASS"] = Null ],
      \* approved in range, a key column holding the null marker
      [ BaseRow EXCEPT !["Approved"] = Some(T_5_1_2023),
                       !["Borough"] = Some(T_H65055),
                       !["Sprinkler"] = Some(T_X) ] }

Tables == UNION { [1..n -> RowPool] : n \in 0..MaxRows }

\* --------------------------------------------------------------- loader
\* Columns whose cells are numbers (a number is never the marker text).
NumericColumns == {"Job #"} \cup Range(AggColumns)

\* pl.read_csv(..., null_values=["H65055"]): a cell holding the marker is
\* read as null, in every column.
load_data(file) ==
    [ i \in 1..Len(file) |->
        [ c \in RawColumns |->
            IF c \notin NumericColumns /\ file[i][c] = Some(T_H65055)
            THEN Null ELSE file[i][c] ] ]

\* ---------------------------------------------------------- transformer
\* df_pandas["Date_Approved"] = pd.to_datetime(df_pandas["Approved"], ...)
WithDateApproved(df) ==
    [ i \in 1..Len(df) |->
        [ c \in RawColumns \cup {"Date_Approved"} |->
            IF c = "Date_Approved" THEN to_datetime(df[i]["Approved"])
            ELSE df[i][c] ] ]

YearKept_only2023(y) == y \in {2023}
\* .dt.year.isin([2023, 2024])
YearKept(y) == y \in {2023, 2024}

\* df_pandas[df_pandas["Date_Approved"].dt.year.isin([2023, 2024])]
\* (the year of NaT is NaN, which is in no list)
FilterYears(df) ==
    SelectSeq(df, LAMBDA r : r["Date_Approved"] # Null
                             /\ YearKept(r["Date_Approved"][1][1]))

\* Order of two non-null cells of one key column (groupby sorts its keys).
RECURSIVE SeqLess(_, _)
SeqLess(a, b) ==
    IF a = << >> THEN b # << >>
    ELSE IF b = << >> THEN FALSE
    ELSE IF Head(a) # Head(b) THEN Head(a) < Head(b)
    ELSE SeqLess(Tail(a), Tail(b))

CellLess(c, x, y) == IF c = "Job #" THEN x[1] < y[1] ELSE SeqLess(x[1], y[1])

KeyOf(r) == [ k \in 1..Len(GroupKeys) |-> r[GroupKeys[k]] ]

RECURSIVE KeyLessFrom(_, _, _)
KeyLessFrom(k, a, b) ==
    IF k > Len(GroupKeys) THEN FALSE
    ELSE IF a[k] # b[k] THEN CellLess(GroupKeys[k], a[k], b[k])
    ELSE KeyLessFrom(k + 1, a, b)

KeyLess(a, b) == KeyLessFrom(1, a, b)

RECURSIVE SortKeys(_)
SortKeys(S) ==
    IF S = {} THEN << >>
    ELSE LET m == CHOOSE x \in S : \A y \in S \ {x} : KeyLess(x, y)
         IN << m >> \o SortKeys(S \ {m})

NonNull(cells) == SelectSeq(cells, LAMBDA x : x # Null)

RECURSIVE RatSum(_)
RatSum(cells) ==
    IF cells = << >> THEN << 0, 1 >>
    ELSE RatAdd(Head(cells)[1], RatSum(Tail(cells)))

RECURSIVE IntSum(_)
IntSum(cells) ==
    IF cells = << >> THEN 0 ELSE Head(cells)[1] + IntSum(Tail(cells))

AggMean_first(cells) ==
    IF NonNull(cells) = << >> THEN Null ELSE Head(NonNull(cells))
\* "mean": the mean of the group's non-null values, NaN if there are none
AggMean(cells) ==
    IF NonNull(cells) = << >> THEN Null
    ELSE Some(RatDivInt(RatSum(NonNull(cells)), Len(NonNull(cells))))

AggSum_count(cells) == Some(Len(NonNull(cells)))
\* "sum": the sum of the group's non-null values, 0 if there are none
AggSum(cells) == Some(IntSum(NonNull(cells)))

\* A row takes part in groupby only if none of its key cells is null
\* (groupby's default dropna=True).
HasFullKey(r) == \A k \in 1..Len(GroupKeys) : r[GroupKeys[k]] # Null

Column(df, c) == [ i \in 1..Len(df) |-> df[i][c] ]

\* df_filtered.groupby([...11 keys...]).agg({...}).reset_index()
GroupAgg(df) ==
    LET rows == SelectSeq(df, HasFullKey)
        keys == SortKeys({ KeyOf(rows[i]) : i \in 1..Len(rows) })
        Group(key) == SelectSeq(rows, LAMBDA r : KeyOf(r) = key)
        KeyIndex(c) == CHOOSE k \in 1..Len(GroupKeys) : GroupKeys[k] = c
    IN [ g \in 1..Len(keys) |->
           [ c \in Range(GroupKeys) \cup Range(AggColumns) |->
               IF c \in Range(GroupKeys) THEN keys[g][KeyIndex(c)]
               ELSE IF c = "Initial Cost"
                    THEN AggSum(Column(Group(keys[g]), c))
                    ELSE AggMean(Column(Group(keys[g]), c)) ] ]

\* process_data(df): the filtered frame and the returned frame
\* (pd.DataFrame(), without rows, when nothing passes the filter).
process_data(df) ==
    LET df_filtered == FilterYears(WithDateApproved(df))
    IN IF Len(df_filtered) = 0 THEN << >> ELSE GroupAgg(df_filtered)


\* -------------------------------------------------------------- reporter
\* df_filtered.melt(id_vars=["Date_Approved"], value_vars=columns_of_interest,
\*                  var_name="Job_Type", value_name="Count")
melt(df) ==
    [ j \in 1..(Len(columns_of_interest) * Len(df)) |->
        LET v == ((j - 1) \div Len(df)) + 1
            i == ((j - 1) % Len(df)) + 1
        IN [ Date_Approved |-> df[i]["Date_Approved"],
             Job_Type |-> columns_of_interest[v],
             Count |-> df[i][columns_of_interest[v]] ] ]

IndicatorCount_nonnull(x) == IF x # Null THEN 1 ELSE 0
\* lambda x: 1 if x == "X" else 0
IndicatorCount(x) == IF x = Some(T_X) THEN 1 ELSE 0

\* df_long["Count"].apply(...) followed by dropna(subset=["Count"])
CountAndDrop(long) ==
    SelectSeq([ j \in 1..Len(long) |->
                  [ long[j] EXCEPT !.Count = Some(IndicatorCount(long[j].Count)) ] ],
              LAMBDA r : r.Count # Null)

\* .dt.to_period("M")
to_period_M(date) == << date[1][1], date[1][2] >>

RECURSIVE SumCounts(_)
SumCounts(long) ==
    IF long = << >> THEN 0 ELSE Head(long).Count[1] + SumCounts(Tail(long))

\* groupby(["Month_Approved", "Job_Type"])["Count"].sum().unstack(fill_value=0)
monthly_counts(long) ==
    LET dated == SelectSeq(long, LAMBDA r : r.Date_Approved # Null)
        months == { to_period_M(dated[j].Date_Approved) : j \in 1..Len(dated) }
        types == { dated[j].Job_Type : j \in 1..Len(dated) }
    IN [ m \in months |->
           [ t \in types |->
               SumCounts(SelectSeq(dated,
                   LAMBDA r : to_period_M(r.Date_Approved) = m
                              /\ r.Job_Type = t)) ] ]

\* create_visualizations(df_filtered): the matrix that is plotted and saved
create_visualizations(df_filtered) ==
    monthly_counts(CountAndDrop(melt(df_filtered)))

\* ---------------------------------------------------------------- driver
VARIABLES
    pc,          \* position of main(): "idle" between runs, else the stage
    run,         \* number of runs of main() started
    rawFile,     \* RAW_DATA_FILE on disk
    pending,     \* chunks of the response not yet written
    df_raw,      \* main's df_raw
    df_filtered, \* the filtered frame (process_data's, then main's)
    df_processed,\* main's df_processed
    csvFile,     \* PROCESSED_DATA_FILE on disk
    chartFile,   \* output/jobs_by_month_type.png on disk
                 \* (source: the raw rows it was computed from)
    log,         \* stages invoked by the current run, in order
    failedIn,    \* stage whose exception ended the current run, or "none"
    atStart      \* the files as the current run found them

vars == << pc, run, rawFile, pending, df_raw, df_filtered, df_processed, csvFile,
           chartFile, log, failedIn, atStart >>

NoFile == [ exists |-> FALSE, rows |-> << >>, complete |-> FALSE ]
NoCsv == [ exists |-> FALSE, rows |-> << >>, source |-> << >> ]
NoChart == [ exists |-> FALSE, matrix |-> << >> ]

Init ==
    /\ pc = "idle"
    /\ run = 0
    /\ rawFile = NoFile
    /\ pending = << >>
    /\ df_raw = << >>
    /\ df_filtered = << >>
    /\ df_processed = << >>
    /\ csvFile = NoCsv
    /\ chartFile = NoChart
    /\ log = << >>
    /\ failedIn = "none"
    /\ atStart = [ raw |-> NoFile, csv |-> NoCsv, chart |-> NoChart ]

SkipDownload_never(raw) == FALSE
\* main: "if not RAW_DATA_FILE.exists(): download_data(...) else: skip"
SkipDownload(raw) == raw.exists

AfterRaise_swallowed(stage) ==
    CASE stage = "download" -> "load"
      [] stage = "load" -> "process"
      [] OTHER -> "failed"
\* "except Exception as e: print(...); raise" in the stage, then the same
\* in main: the run is over
AfterRaise(stage) == "failed"

EarlyExit_never(df) == FALSE
\* main: "if df_processed.empty: ... return"
EarlyExit(df) == Len(df) = 0

Ended == pc \in {"idle", "done", "exited", "failed"}

\* main() is entered and tests whether the raw file exists.
MainStart ==
    /\ Ended
    /\ run < MaxRuns
    /\ run' = run + 1
    /\ pc' = IF SkipDownload(rawFile) THEN "load" ELSE "request"
    /\ log' = << >>
    /\ failedIn' = "none"
    /\ df_raw' = << >>
    /\ df_filtered' = << >>
    /\ df_processed' = << >>
    /\ atStart' = [ raw |-> rawFile, csv |-> csvFile, chart |-> chartFile ]
    /\ UNCHANGED << rawFile, pending, csvFile, chartFile >>

\* download_data: the request succeeds and the output file is opened "wb".
DownloadRequest ==
    /\ pc = "request"
    /\ \E t \in Tables : pending' = t
    /\ rawFile' = [ exists |-> TRUE, rows |-> << >>, complete |-> FALSE ]
    /\ log' = Append(log, "download")
    /\ pc' = "downloading"
    /\ UNCHANGED << run, df_raw, df_filtered, df_processed, csvFile, chartFile, failedIn,
                    atStart >>

\* download_data: requests.get or raise_for_status raises.
DownloadRequestFail ==
    /\ pc = "request"
    /\ log' = Append(log, "download")
    /\ failedIn' = "download"
    /\ pc' = AfterRaise("download")
    /\ UNCHANGED << run, rawFile, pending, df_raw, df_filtered, df_processed, csvFile,
                    chartFile, atStart >>

\* download_data: one chunk of the response is written.
DownloadChunk ==
    /\ pc = "downloading"
    /\ pending # << >>
    /\ rawFile' = [ rawFile EXCEPT !.rows = Append(@, Head(pending)) ]
    /\ pending' = Tail(pending)
    /\ UNCHANGED << pc, run, df_raw, df_filtered, df_processed, csvFile, chartFile, log,
                    failedIn, atStart >>

\* download_data: the stream breaks before the whole response is written;
\* what was written stays on disk.
DownloadChunkFail ==
    /\ pc = "downloading"
    /\ pending # << >>
    /\ pending' = << >>
    /\ failedIn' = "download"
    /\ pc' = AfterRaise("download")
    /\ UNCHANGED << run, rawFile, df_raw, df_filtered, df_processed, csvFile, chartFile,
                    log, atStart >>

\* download_data: the stream ends and the file is closed.
DownloadFinish ==
    /\ pc = "downloading"
    /\ pending = << >>
    /\ rawFile' = [ rawFile EXCEPT !.complete = TRUE ]
    /\ pc' = "load"
    /\ UNCHANGED << run, pending, df_raw, df_filtered, df_processed, csvFile, chartFile,
                    log, failedIn, atStart >>

\* load_data(RAW_DATA_FILE) returns the frame.
LoadData ==
    /\ pc = "load"
    /\ df_raw' = load_data(rawFile.rows)
    /\ log' = Append(log, "load")
    /\ pc' = "process"
    /\ UNCHANGED << run, rawFile, pending, df_filtered, df_processed, csvFile, chartFile,
                    failedIn, atStart >>

\* load_data raises (unreadable or undecodable file).
LoadDataFail ==
    /\ pc = "load"
    /\ log' = Append(log, "load")
    /\ failedIn' = "load"
    /\ pc' = AfterRaise("load")
    /\ UNCHANGED << run, rawFile, pending, df_raw, df_filtered, df_processed, csvFile,
                    chartFile, atStart >>

\* df_processed = process_data(df_raw), then main's test for the early exit.
ProcessData ==
    /\ pc = "process"
    /\ df_filtered' = FilterYears(WithDateApproved(df_raw))
    /\ df_processed' = process_data(df_raw)
    /\ log' = Append(log, "process")
    /\ pc' = IF EarlyExit(process_data(df_raw)) THEN "exited" ELSE "save"
    /\ UNCHANGED << run, rawFile, pending, df_raw, csvFile, chartFile,
                    failedIn, atStart >>

\* save_processed_data(df_processed, PROCESSED_DATA_FILE)
SaveProcessedData ==
    /\ pc = "save"
    /\ csvFile' = [ exists |-> TRUE, rows |-> df_processed,
                    source |-> rawFile.rows ]
    /\ log' = Append(log, "save")
    /\ pc' = "viz"
    /\ UNCHANGED << run, rawFile, pending, df_raw, df_filtered, df_processed, chartFile,
                    failedIn, atStart >>

\* save_processed_data raises before the file is replaced.
SaveProcessedDataFail ==
    /\ pc = "save"
    /\ log' = Append(log, "save")
    /\ failedIn' = "save"
    /\ pc' = AfterRaise("save")
    /\ UNCHANGED << run, rawFile, pending, df_raw, df_filtered, df_processed, csvFile,
                    chartFile, atStart >>

\* main recomputes the filtered frame from df_raw and plots it.
CreateVisualizations ==
    /\ pc = "viz"
    /\ df_filtered' = FilterYears(WithDateApproved(df_raw))
    /\ chartFile' =
         [ exists |-> TRUE,
           matrix |-> create_visualizations(
                          FilterYears(WithDateApproved(df_raw))) ]
    /\ log' = Append(log, "viz")
    /\ pc' = "done"
    /\ UNCHANGED << run, rawFile, pending, df_raw, df_processed, csvFile,
                    failedIn, atStart >>

\* create_visualizations raises before the image is replaced.
CreateVisualizationsFail ==
    /\ pc = "viz"
    /\ log' = Append(log, "viz")
    /\ failedIn' = "viz"
    /\ pc' = AfterRaise("viz")
    /\ UNCHANGED << run, rawFile, pending, df_raw, df_filtered, df_processed, csvFile,
                    chartFile, atStart >>

Next ==
    \/ MainStart
    \/ DownloadRequest
    \/ DownloadRequestFail
    \/ DownloadChunk
    \/ DownloadChunkFail
    \/ DownloadFinish
    \/ LoadData
    \/ LoadDataFail
    \/ ProcessData
    \/ SaveProcessedData
    \/ SaveProcessedDataFail
    \/ CreateVisualizations
    \/ CreateVisualizationsFail

Spec == Init /\ [][Next]_vars


\* ---------------------------------------------------------------- claims
Ran(stage) == stage \in Range(log)
Times(stage) == Cardinality({ i \in 1..Len(log) : log[i] = stage })
InWindow(date) == date # Null /\ date[1][1] \in {2023, 2024}

\* Every row's derived date is null or outside 2023-2024.
AllOutside(df) ==
    \A i \in 1..Len(df) : ~InWindow(to_datetime(df[i]["Approved"]))

\* C1: when every loaded row's derived date is null or outside
\* {2023, 2024}, process_data returns an empty result and the run ends
\* normally (early exit) without invoking save_processed_data or
\* create_visualizations and without touching the CSV or the chart.
C1_EmptyAfterFilter ==
    (Ran("process") /\ AllOutside(df_raw)) =>
        /\ df_processed = << >>
        /\ pc = "exited"
        /\ failedIn = "none"
        /\ ~Ran("save") /\ ~Ran("viz")
        /\ csvFile = atStart.csv
        /\ chartFile = atStart.chart

C1_Witness ==
    /\ pc = "exited"
    /\ Len(df_raw) = 2
    /\ AllOutside(df_raw)
    /\ to_datetime(df_raw[1]["Approved"]) = Null
    /\ to_datetime(df_raw[2]["Approved"]) # Null

\* C2: a run that starts with the raw file present never invokes
\* download_data, leaves the raw file unchanged, and, when it writes the
\* aggregated CSV, writes what the earlier run wrote from the same raw file.
C2_SkipDownload ==
    (run > 0 /\ atStart.raw.exists) =>
        /\ ~Ran("download")
        /\ rawFile = atStart.raw
        /\ ( /\ Ran("save") /\ failedIn # "save"
             /\ atStart.csv.exists
             /\ atStart.csv.source = rawFile.rows )
           => csvFile.rows = atStart.csv.rows

C2_Witness ==
    /\ run = 2
    /\ pc = "done"
    /\ atStart.raw.exists
    /\ atStart.csv.exists
    /\ Len(csvFile.rows) > 0

\* C3: when download_data or load_data raises, the run ends failed, no
\* later stage runs, the failing stage ran once (no retry), and the run
\* writes neither the CSV nor the chart.
C3_FailureIsFatal ==
    (failedIn \in {"download", "load"}) =>
        /\ pc = "failed"
        /\ Times(failedIn) = 1
        /\ (failedIn = "download" => ~Ran("load"))
        /\ ~Ran("process") /\ ~Ran("save") /\ ~Ran("viz")
        /\ csvFile = atStart.csv
        /\ chartFile = atStart.chart

C3_Witness ==
    /\ pc = "failed"
    /\ failedIn = "load"
    /\ Ran("download")
    /\ Len(rawFile.rows) > 0

\* Reference reading of a day/month/year text: three digit fields parted
\* by two slashes, naming a day the month has.
RefDate(cell) ==
    IF cell = Null THEN Null
    ELSE LET s == cell[1]
             sl == { i \in 1..Len(s) : s[i] = 47 }
         IN IF Cardinality(sl) # 2 THEN Null
            ELSE LET a == CHOOSE i \in sl : \A j \in sl : i <= j
                     b == CHOOSE i \in sl : \A j \in sl : i >= j
                     dd == SubSeq(s, 1, a - 1)
                     mm == SubSeq(s, a + 1, b - 1)
                     yy == SubSeq(s, b + 1, Len(s))
                     Digits(t) == \A i \in 1..Len(t) : IsDigit(t[i])
                 IN IF /\ Digits(dd) /\ Digits(mm) /\ Digits(yy)
                       /\ Len(dd) \in {1, 2} /\ Len(mm) \in {1, 2}
                       /\ Len(yy) = 4
                       /\ TokVal(mm) \in 1..12
                       /\ TokVal(yy) >= 1
                       /\ TokVal(dd) \in 1..DaysInMonth(TokVal(yy), TokVal(mm))
                    THEN Some(<< TokVal(yy), TokVal(mm), TokVal(dd) >>)
                    ELSE Null

\* C4: a row is in the filtered set iff its 'Approved' text parses as
\* day/month/year to a date of 2023 or 2024; "15/03/2023" is 2023-03-15
\* and an unparseable text is a null date, excluded.
C4_FilterRule ==
    /\ to_datetime(Some(T_15_03_2023)) = Some(<< 2023, 3, 15 >>)
    /\ to_datetime(Some(T_not_a_date)) = Null
    /\ Ran("process") =>
         /\ df_filtered =
              SelectSeq(WithDateApproved(df_raw),
                        LAMBDA r : InWindow(RefDate(r["Approved"])))
         /\ \A i \in 1..Len(df_filtered) :
              df_filtered[i]["Date_Approved"]
                  = RefDate(df_filtered[i]["Approved"])

C4_Witness ==
    /\ Ran("process")
    /\ Len(df_raw) = 2
    /\ Len(df_filtered) = 1
    /\ df_raw[1]["Approved"] = Some(T_03_15_2023)
    /\ df_raw[2]["Approved"] = Some(T_31_12_2024)

\* The cells of column c over the filtered rows that share key.
CellsOf(key, c) ==
    Column(SelectSeq(df_filtered, LAMBDA r : KeyOf(r) = key), c)

\* C5: when the filtered set is non-empty, process_data emits exactly one
\* row per distinct combination of the 11 key columns occurring among the
\* filtered rows, carrying the mean latitude, the mean longitude and the
\* summed cost of the filtered rows sharing that key, and every filtered
\* row belongs to exactly one emitted group.
C5_OneRowPerKey ==
    (Ran("process") /\ Len(df_filtered) > 0) =>
        LET keys == { KeyOf(df_filtered[i]) : i \in 1..Len(df_filtered) }
        IN /\ Len(df_processed) = Cardinality(keys)
           /\ { KeyOf(df_processed[g]) : g \in 1..Len(df_processed) } = keys
           /\ \A g \in 1..Len(df_processed) :
                LET key == KeyOf(df_processed[g])
                IN /\ df_processed[g]["GIS_LATITUDE"]
                        = AggMean(CellsOf(key, "GIS_LATITUDE"))
                   /\ df_processed[g]["GIS_LONGITUDE"]
                        = AggMean(CellsOf(key, "GIS_LONGITUDE"))
                   /\ df_processed[g]["Initial Cost"]
                        = AggSum(CellsOf(key, "Initial Cost"))
           /\ \A i \in 1..Len(df_filtered) :
                Cardinality({ g \in 1..Len(df_processed) :
                    KeyOf(df_processed[g]) = KeyOf(df_filtered[i]) }) = 1

\* C6: re-applying the group-by to the aggregated output yields the
\* aggregated output unchanged.
C6_AggregationIdempotent ==
    (Ran("process") /\ Len(df_filtered) > 0) =>
        GroupAgg(df_processed) = df_processed

C6_Witness ==
    /\ Ran("process")
    /\ Len(df_filtered) = 2
    /\ Len(df_processed) = 1
    /\ df_processed[1]["Initial Cost"] = Some(30)

Perms(df) ==
    { [ i \in 1..Len(df) |-> df[f[i]] ] :
        f \in { g \in [1..Len(df) -> 1..Len(df)] :
                  \A i, j \in 1..Len(df) : g[i] = g[j] => i = j } }

ChartWritten == Ran("viz") /\ failedIn # "viz"

\* C8: "X" counts 1 and anything else 0; the chart's matrix has one row
\* per distinct month among the filtered rows and, for each of the twelve
\* columns, the number of filtered rows of that month whose cell is "X";
\* no melted row is dropped.
C8_IndicatorCounting ==
    /\ IndicatorCount(Some(T_X)) = 1
    /\ IndicatorCount(Some(T_x)) = 0
    /\ IndicatorCount(Null) = 0
    /\ ChartWritten =>
         LET months == { << df_filtered[i]["Date_Approved"][1][1],
                            df_filtered[i]["Date_Approved"][1][2] >> :
                         i \in 1..Len(df_filtered) }
             M == chartFile.matrix
         IN /\ DOMAIN M = months
            /\ \A m \in months :
                 /\ DOMAIN M[m] = Range(columns_of_interest)
                 /\ \A c \in Range(columns_of_interest) :
                      M[m][c] = Cardinality({ i \in 1..Len(df_filtered) :
                          /\ df_filtered[i]["Date_Approved"][1][1] = m[1]
                          /\ df_filtered[i]["Date_Approved"][1][2] = m[2]
                          /\ df_filtered[i][c] = Some(T_X) })
            /\ Len(CountAndDrop(melt(df_filtered)))
                 = Len(columns_of_interest) * Len(df_filtered)

C8_Witness ==
    /\ pc = "done"
    /\ Cardinality(DOMAIN chartFile.matrix) = 2
    /\ \E i \in 1..Len(df_filtered) : df_filtered[i]["Plumbing"] = Some(T_x)

\* C9: in a run in which some loaded row has a derived date in 2023 or
\* 2024 and no stage raises, the driver does not take the early exit and
\* the run ends having written the CSV and then the chart.
C9_OnlyEarlyExit ==
    (Ran("process") /\ failedIn = "none" /\ ~AllOutside(df_raw)) =>
        /\ pc # "exited"
        /\ pc = "done" => /\ log = << "load", "process", "save", "viz" >>
                             \/ log = << "download", "load", "process",
                                         "save", "viz" >>
                          /\ csvFile.exists /\ chartFile.exists

\* C10: load_data is only ever invoked on a raw file whose download ran
\* to completion.
C10_LoadOnlyComplete ==
    Ran("load") => rawFile.complete

====
